---- MODULE Spec2Model ----
(***************************************************************************)
(* Cloud cost calculators of ai-study-circle:                              *)
(*   scripts/cloud-cost-calculator.py     class CloudCostCalculator        *)
(*   scripts/accurate-cost-calculator.py  module-level functions (Acc...)  *)
(*                                                                         *)
(* Number representation.  The scripts compute in Python floats; here      *)
(* every amount of money is an integer number of milli-dollars (1/1000 $)  *)
(* and every percentage an integer number of 1/10000 percent.  A unit      *)
(* price is a fraction [n, d]: n milli-dollars per d units.  Products and  *)
(* quotients are truncated toward zero to that resolution.                 *)
(* memory_gb is held in half gigabytes (MemDen parts per GB).              *)
(***************************************************************************)
EXTENDS Integers, Sequences, FiniteSets, TLC

VARIABLES scenario, call, pc, idx, results, avg_azure_savings

vars == <<scenario, call, pc, idx, results, avg_azure_savings>>

(***************************************************************************)
(* Float arithmetic, in fixed point                                        *)
(***************************************************************************)
Milli == 1000

PctScale == 10000

MemDen == 2

Dollars(x) == x * Milli

max(a, b) == IF a >= b THEN a ELSE b

\* (r * b) % c and (r * b) \div c for 0 <= r < c and b >= 0, by doubling, so
\* that no intermediate value exceeds 2 * c.
RECURSIVE MulMod(_, _, _)
MulMod(r, b, c) ==
    IF b = 0 THEN 0
    ELSE (2 * MulMod(r, b \div 2, c) + (IF b % 2 = 1 THEN r ELSE 0)) % c

RECURSIVE MulQuot(_, _, _)
MulQuot(r, b, c) ==
    IF b = 0 THEN 0
    ELSE 2 * MulQuot(r, b \div 2, c)
         + ((2 * MulMod(r, b \div 2, c) + (IF b % 2 = 1 THEN r ELSE 0)) \div c)

\* (a * b) / c for a, b >= 0 and c > 0, truncated.
MulDivNat(a, b, c) ==
    (a \div c) * b + (IF a % c = 0 THEN 0 ELSE MulQuot(a % c, b, c))

Abs(x) == IF x < 0 THEN -x ELSE x

Sign(x) == IF x < 0 THEN -1 ELSE IF x > 0 THEN 1 ELSE 0

\* (a * b) / c for integers a, c and b >= 0, c # 0, truncated toward zero.
\* A function, so that its operands are values when it is applied.
MulDivInt[a \in Int, b \in Nat, c \in Int] ==
    Sign(a) * Sign(c) * MulDivNat(Abs(a), b, Abs(c))

MulDiv(a, b, c) == MulDivInt[a, b, c]

\* quantity * unit price
Times(q, price) == MulDiv(q, price.n, price.d)

\* numerator / denominator * 100
Percent(num, den) == MulDiv(num, 100 * PctScale, den)

(***************************************************************************)
(* CloudCostCalculator.__init__: the price tables.                         *)
(* [n |-> a, d |-> b] is a milli-dollars per b units; a monthly tier price *)
(* is an amount of milli-dollars.                                          *)
(***************************************************************************)
aws_pricing ==
    [lambda      |-> [requests   |-> [n |-> 2, d |-> 10000],           \* 0.0000002
                      gb_seconds |-> [n |-> 166667, d |-> 10000000]],  \* 0.0000166667
     api_gateway |-> [requests   |-> [n |-> 35, d |-> 10000]],         \* 0.0000035
     s3          |-> [storage    |-> [n |-> 23, d |-> 1],              \* 0.023
                      transfer   |-> [n |-> 90, d |-> 1]],             \* 0.09
     cloudfront  |-> [transfer   |-> [n |-> 85, d |-> 1]],             \* 0.085
     documentdb  |-> [t3_medium  |-> Dollars(65),
                      r5_large   |-> Dollars(156),
                      r5_2xlarge |-> Dollars(625)],
     cloudwatch  |-> [ingestion  |-> [n |-> 500, d |-> 1],             \* 0.50
                      storage    |-> [n |-> 30, d |-> 1],              \* 0.03
                      metrics    |-> [n |-> 300, d |-> 1],             \* 0.30
                      alarms     |-> [n |-> 100, d |-> 1]],            \* 0.10
     opensearch  |-> [t3_small   |-> Dollars(28),
                      m5_large   |-> Dollars(89),
                      c5_2xlarge |-> Dollars(567)]]

azure_pricing ==
    [functions        |-> [requests   |-> [n |-> 2, d |-> 10000],      \* 0.0000002
                           gb_seconds |-> [n |-> 16, d |-> 1000]],     \* 0.000016
     apim             |-> [developer  |-> Dollars(48),
                           standard   |-> Dollars(268),
                           premium    |-> Dollars(2845)],
     static_web_apps  |-> [standard   |-> Dollars(9),
                           storage    |-> [n |-> 180, d |-> 1],        \* 0.18
                           bandwidth  |-> [n |-> 150, d |-> 1]],       \* 0.15
     cosmos_db        |-> [ru_per_second |-> [n |-> 8, d |-> 1]],      \* 0.008
     monitor          |-> [ingestion  |-> [n |-> 270, d |-> 1],        \* 0.27
                           retention_basic   |-> [n |-> 120, d |-> 1], \* 0.12
                           retention_premium |-> [n |-> 250, d |-> 1]],\* 0.25
     cognitive_search |-> [basic       |-> Dollars(25),
                           standard_s1 |-> Dollars(89),
                           standard_s3 |-> Dollars(445)]]

\* Free tiers of Lambda and of Azure Functions: requests and GB-seconds.
FreeRequests == 1000000

FreeGbSeconds == 400000

\* Cosmos DB is billed per hour.
hours_per_month == 730

\* dict.get(key, default)
Get(dict, key, default) == IF key \in DOMAIN dict THEN dict[key] ELSE default

\* The value of a call: what it returned, or the exception it raised.
Returned(value) == [status |-> "returned", value |-> value]

Raised(error) == [status |-> "raised", error |-> error]

\* requests * duration * memory, memory being held in MemDen parts per GB
GbSeconds(requests, duration, memory) == (requests * duration * memory) \div MemDen

(***************************************************************************)
(* CloudCostCalculator.calculate_aws_costs                                 *)
(***************************************************************************)
\* the free tier subtracted without the clamp max(0, ...)
AwsLambdaNoClamp(s) ==
    LET gb_seconds == GbSeconds(s.requests_per_month, s.avg_duration_seconds, s.memory_gb)
        requests   == Times(s.requests_per_month - FreeRequests,
                            aws_pricing.lambda.requests)
        execution  == max(0, Times(gb_seconds - FreeGbSeconds,
                                   aws_pricing.lambda.gb_seconds))
    IN  [requests |-> requests, execution |-> execution, total |-> requests + execution]

AwsLambda(s) ==
    LET gb_seconds == GbSeconds(s.requests_per_month, s.avg_duration_seconds, s.memory_gb)
        requests   == max(0, Times(s.requests_per_month - FreeRequests,
                                   aws_pricing.lambda.requests))
        execution  == max(0, Times(gb_seconds - FreeGbSeconds,
                                   aws_pricing.lambda.gb_seconds))
    IN  [requests |-> requests, execution |-> execution, total |-> requests + execution]

\* the gateway billed at the Lambda request price
AwsApiGatewayAtLambdaPrice(s) ==
    Times(s.requests_per_month, aws_pricing.lambda.requests)

AwsApiGateway(s) == Times(s.requests_per_month, aws_pricing.api_gateway.requests)

AwsS3Cloudfront(s) ==
    LET storage  == Times(s.storage_gb, aws_pricing.s3.storage)
        transfer == Times(s.cdn_transfer_gb, aws_pricing.cloudfront.transfer)
    IN  [storage |-> storage, transfer |-> transfer, total |-> storage + transfer]

AwsDatabase(s) == s.database_cost

AwsCloudwatch(s) ==
    LET ingestion == Times(s.log_volume_gb, aws_pricing.cloudwatch.ingestion)
        storage   == Times(s.log_volume_gb, aws_pricing.cloudwatch.storage)
        metrics   == Times(s.metrics_count, aws_pricing.cloudwatch.metrics)
        alarms    == Times(s.alarms_count, aws_pricing.cloudwatch.alarms)
    IN  [ingestion |-> ingestion, storage |-> storage, metrics |-> metrics,
         alarms |-> alarms, total |-> ingestion + storage + metrics + alarms]

AwsOpensearch(s) == s.opensearch_cost

AwsAdditional(s) ==
    [cognito       |-> Get(s, "cognito_cost", 0),
     sns_ses       |-> Get(s, "notification_cost", Dollars(2)),
     waf           |-> Get(s, "waf_cost", Dollars(6)),
     data_transfer |-> Get(s, "data_transfer_cost", Dollars(18))]

AwsCosts(s) ==
    [lambda        |-> AwsLambda(s),
     api_gateway   |-> AwsApiGateway(s),
     s3_cloudfront |-> AwsS3Cloudfront(s),
     database      |-> AwsDatabase(s),
     cloudwatch    |-> AwsCloudwatch(s),
     opensearch    |-> AwsOpensearch(s),
     additional    |-> AwsAdditional(s)]

\* total_cost with the CloudWatch term left out
AwsTotalCostNoCloudwatch(costs) ==
    costs.lambda.total + costs.api_gateway
    + costs.s3_cloudfront.total + costs.database
    + costs.opensearch
    + (costs.additional.cognito + costs.additional.sns_ses
       + costs.additional.waf + costs.additional.data_transfer)

\* total_cost with the OpenSearch term left out
AwsTotalCostNoOpensearch(costs) ==
    costs.lambda.total + costs.api_gateway
    + costs.s3_cloudfront.total + costs.database
    + costs.cloudwatch.total
    + (costs.additional.cognito + costs.additional.sns_ses
       + costs.additional.waf + costs.additional.data_transfer)

AwsTotalCost(costs) ==
    costs.lambda.total + costs.api_gateway
    + costs.s3_cloudfront.total + costs.database
    + costs.cloudwatch.total + costs.opensearch
    + (costs.additional.cognito + costs.additional.sns_ses
       + costs.additional.waf + costs.additional.data_transfer)

\* The numerator of the logging percentage.
AwsLoggingCost(costs) == costs.cloudwatch.total + costs.opensearch

calculate_aws_costs(s) ==
    LET costs      == AwsCosts(s)
        total_cost == AwsTotalCost(costs)
    IN  IF total_cost = 0
        THEN Raised("ZeroDivisionError")
        ELSE Returned([breakdown |-> costs,
                       total |-> total_cost,
                       logging_percentage |-> Percent(AwsLoggingCost(costs), total_cost)])

(***************************************************************************)
(* CloudCostCalculator.calculate_azure_costs                               *)
(***************************************************************************)
AzureFunctions(s) ==
    LET gb_seconds == GbSeconds(s.requests_per_month, s.avg_duration_seconds, s.memory_gb)
        requests   == max(0, Times(s.requests_per_month - FreeRequests,
                                   azure_pricing.functions.requests))
        execution  == max(0, Times(gb_seconds - FreeGbSeconds,
                                   azure_pricing.functions.gb_seconds))
    IN  [requests |-> requests, execution |-> execution, total |-> requests + execution]

AzureApim(s) == s.apim_tier_cost

\* the Static Web Apps plan fee left out of the total
AzureStaticWebAppsNoBase(s) ==
    LET base      == azure_pricing.static_web_apps.standard
        storage   == Times(s.storage_gb, azure_pricing.static_web_apps.storage)
        bandwidth == Times(s.cdn_transfer_gb, azure_pricing.static_web_apps.bandwidth)
    IN  [base |-> base, storage |-> storage, bandwidth |-> bandwidth,
         total |-> storage + bandwidth]

AzureStaticWebApps(s) ==
    LET base      == azure_pricing.static_web_apps.standard
        storage   == Times(s.storage_gb, azure_pricing.static_web_apps.storage)
        bandwidth == Times(s.cdn_transfer_gb, azure_pricing.static_web_apps.bandwidth)
    IN  [base |-> base, storage |-> storage, bandwidth |-> bandwidth,
         total |-> base + storage + bandwidth]

AzureCosmosDb(s) ==
    Times(s.cosmos_ru_per_second, azure_pricing.cosmos_db.ru_per_second) * hours_per_month

\* retention billed at the premium rate
AzureMonitorPremium(s) ==
    LET ingestion == Times(s.log_volume_gb, azure_pricing.monitor.ingestion)
        retention == Times(s.log_volume_gb, azure_pricing.monitor.retention_premium)
    IN  [ingestion |-> ingestion, retention |-> retention, total |-> ingestion + retention]

AzureMonitor(s) ==
    LET ingestion == Times(s.log_volume_gb, azure_pricing.monitor.ingestion)
        retention == Times(s.log_volume_gb, azure_pricing.monitor.retention_basic)
    IN  [ingestion |-> ingestion, retention |-> retention, total |-> ingestion + retention]

AzureSearch(s) == s.search_tier_cost

AzureAdditional(s) ==
    [ad_b2c        |-> Get(s, "ad_b2c_cost", 0),
     logic_apps    |-> Get(s, "logic_apps_cost", Dollars(1)),
     app_gateway   |-> Get(s, "app_gateway_cost", Dollars(18)),
     key_vault     |-> Get(s, "key_vault_cost", Dollars(1)),
     data_transfer |-> Get(s, "data_transfer_cost", Dollars(16))]

AzureCosts(s) ==
    [functions       |-> AzureFunctions(s),
     apim            |-> AzureApim(s),
     static_web_apps |-> AzureStaticWebApps(s),
     cosmos_db       |-> AzureCosmosDb(s),
     monitor         |-> AzureMonitor(s),
     search          |-> AzureSearch(s),
     additional      |-> AzureAdditional(s)]

AzureTotalCost(costs) ==
    costs.functions.total + costs.apim
    + costs.static_web_apps.total + costs.cosmos_db
    + costs.monitor.total + costs.search
    + (costs.additional.ad_b2c + costs.additional.logic_apps
       + costs.additional.app_gateway + costs.additional.key_vault
       + costs.additional.data_transfer)

AzureLoggingCost(costs) == costs.monitor.total + costs.search

calculate_azure_costs(s) ==
    LET costs      == AzureCosts(s)
        total_cost == AzureTotalCost(costs)
    IN  IF total_cost = 0
        THEN Raised("ZeroDivisionError")
        ELSE Returned([breakdown |-> costs,
                       total |-> total_cost,
                       logging_percentage |-> Percent(AzureLoggingCost(costs), total_cost)])

(***************************************************************************)
(* accurate-cost-calculator.py: calculate_aws_costs, calculate_azure_costs *)
(* (prefixed Acc here: the class above has methods of the same names)      *)
(***************************************************************************)
AccAwsCompute(s) ==
    LET requests         == s.monthly_requests
        lambda_cost      == max(0, Times(requests - 1000000, [n |-> 2, d |-> 10000]))
        api_gateway_cost == Times(requests, [n |-> 35, d |-> 10000])
    IN  [lambda_cost |-> lambda_cost, total |-> lambda_cost + api_gateway_cost]

AccAwsStorage(s) ==
    Times(s.storage_gb, [n |-> 23, d |-> 1]) + Times(s.data_transfer_gb, [n |-> 85, d |-> 1])

\* the first breakpoint taken as users < 100
AccAwsDatabaseStrict(s) ==
    IF s.users < 100 THEN Dollars(65)
    ELSE IF s.users <= 1000 THEN Dollars(156)
    ELSE Dollars(625)

AccAwsDatabase(s) ==
    IF s.users <= 100 THEN Dollars(65)
    ELSE IF s.users <= 1000 THEN Dollars(156)
    ELSE Dollars(625)

AccAwsOpensearch(s) ==
    IF s.users <= 100 THEN Dollars(28)
    ELSE IF s.users <= 1000 THEN Dollars(145)
    ELSE Dollars(567)

AccAwsLogging(s) ==
    LET log_gb          == s.log_volume_gb
        cloudwatch_cost == Times(log_gb, [n |-> 500, d |-> 1]) + Times(log_gb, [n |-> 30, d |-> 1])
    IN  cloudwatch_cost + AccAwsOpensearch(s)

AccAwsAdditional == Dollars(20)

AccAwsTotal(costs) ==
    costs.compute + costs.storage + costs.database + costs.logging + AccAwsAdditional

AccCalculateAwsCosts(s) ==
    LET costs == [compute  |-> AccAwsCompute(s).total,
                  storage  |-> AccAwsStorage(s),
                  database |-> AccAwsDatabase(s),
                  logging  |-> AccAwsLogging(s)]
        total == AccAwsTotal(costs)
    IN  IF total = 0
        THEN Raised("ZeroDivisionError")
        ELSE Returned([compute |-> costs.compute, storage |-> costs.storage,
                       database |-> costs.database, logging |-> costs.logging,
                       total |-> total,
                       logging_pct |-> Percent(costs.logging, total)])

AccAzureApim(s) ==
    IF s.users <= 100 THEN Dollars(48)
    ELSE IF s.users <= 1000 THEN Dollars(268)
    ELSE Dollars(2845)

AccAzureCompute(s) ==
    LET requests       == s.monthly_requests
        functions_cost == max(0, Times(requests - 1000000, [n |-> 2, d |-> 10000]))
    IN  [functions_cost |-> functions_cost, total |-> functions_cost + AccAzureApim(s)]

AccAzureStorage(s) ==
    Times(s.storage_gb, [n |-> 180, d |-> 1]) + Times(s.data_transfer_gb, [n |-> 150, d |-> 1])
    + Dollars(9)

AccAzureDatabase(s) ==
    IF s.users <= 100 THEN Times(1000, [n |-> 8, d |-> 1]) * 730
    ELSE IF s.users <= 1000 THEN Times(5000, [n |-> 8, d |-> 1]) * 730
    ELSE Times(25000, [n |-> 8, d |-> 1]) * 730

AccAzureSearch(s) ==
    IF s.users <= 100 THEN Dollars(25)
    ELSE IF s.users <= 1000 THEN Dollars(89)
    ELSE Dollars(445)

AccAzureLogging(s) ==
    LET log_gb       == s.log_volume_gb
        monitor_cost == Times(log_gb, [n |-> 270, d |-> 1]) + Times(log_gb, [n |-> 120, d |-> 1])
    IN  monitor_cost + AccAzureSearch(s)

AccAzureAdditional == Dollars(15)

AccAzureTotal(costs) ==
    costs.compute + costs.storage + costs.database + costs.logging + AccAzureAdditional

AccCalculateAzureCosts(s) ==
    LET costs == [compute  |-> AccAzureCompute(s).total,
                  storage  |-> AccAzureStorage(s),
                  database |-> AccAzureDatabase(s),
                  logging  |-> AccAzureLogging(s)]
        total == AccAzureTotal(costs)
    IN  IF total = 0
        THEN Raised("ZeroDivisionError")
        ELSE Returned([compute |-> costs.compute, storage |-> costs.storage,
                       database |-> costs.database, logging |-> costs.logging,
                       total |-> total,
                       logging_pct |-> Percent(costs.logging, total)])

(***************************************************************************)
(* CloudCostCalculator.generate_scenarios: a dict, in insertion order      *)
(***************************************************************************)
low_usage ==
    [name |-> "Low Usage (100 DAU)",
     requests_per_month |-> 50000, avg_duration_seconds |-> 2, memory_gb |-> 1,
     storage_gb |-> 50, cdn_transfer_gb |-> 100, log_volume_gb |-> 10,
     metrics_count |-> 50, alarms_count |-> 10,
     database_cost |-> Dollars(65), opensearch_cost |-> Dollars(28),
     apim_tier_cost |-> Dollars(48), cosmos_ru_per_second |-> 1000,
     search_tier_cost |-> Dollars(25)]

medium_usage ==
    [name |-> "Medium Usage (1K DAU)",
     requests_per_month |-> 1500000, avg_duration_seconds |-> 2, memory_gb |-> 1,
     storage_gb |-> 200, cdn_transfer_gb |-> 500, log_volume_gb |-> 100,
     metrics_count |-> 200, alarms_count |-> 25,
     database_cost |-> Dollars(156), opensearch_cost |-> Dollars(145),
     apim_tier_cost |-> Dollars(268), cosmos_ru_per_second |-> 5000,
     search_tier_cost |-> Dollars(89),
     cognito_cost |-> 27500, notification_cost |-> Dollars(12),
     waf_cost |-> Dollars(15), data_transfer_cost |-> Dollars(89),
     ad_b2c_cost |-> Dollars(15), logic_apps_cost |-> Dollars(28),
     app_gateway_cost |-> Dollars(45), key_vault_cost |-> Dollars(3)]

high_usage ==
    [name |-> "High Usage (10K DAU)",
     requests_per_month |-> 15000000, avg_duration_seconds |-> 3, memory_gb |-> 2,
     storage_gb |-> 1000, cdn_transfer_gb |-> 5000, log_volume_gb |-> 1000,
     metrics_count |-> 1000, alarms_count |-> 50,
     database_cost |-> Dollars(625), opensearch_cost |-> Dollars(567),
     apim_tier_cost |-> Dollars(2845), cosmos_ru_per_second |-> 25000,
     search_tier_cost |-> Dollars(445),
     cognito_cost |-> Dollars(275), notification_cost |-> Dollars(89),
     waf_cost |-> Dollars(3000), data_transfer_cost |-> Dollars(856),
     ad_b2c_cost |-> Dollars(150), logic_apps_cost |-> Dollars(234),
     app_gateway_cost |-> Dollars(334), key_vault_cost |-> Dollars(12)]

\* scenarios.items(): the <<key, value>> pairs in insertion order
generate_scenarios ==
    << <<"low_usage", low_usage>>,
       <<"medium_usage", medium_usage>>,
       <<"high_usage", high_usage>> >>

(***************************************************************************)
(* CloudCostCalculator.compare_all_scenarios: the body of the loop         *)
(***************************************************************************)
Savings(aws_total, azure_total) == aws_total - azure_total

\* the difference taken the other way round
SavingsPercentageReversed(aws_total, azure_total) ==
    Percent(azure_total - aws_total, aws_total)

SavingsPercentage(aws_total, azure_total) ==
    Percent(aws_total - azure_total, aws_total)

CompareScenario(scenario_data) ==
    LET aws_costs   == calculate_aws_costs(scenario_data)
        azure_costs == calculate_azure_costs(scenario_data)
    IN  IF aws_costs.status = "raised" THEN aws_costs
        ELSE IF azure_costs.status = "raised" THEN azure_costs
        ELSE Returned(
            [scenario |-> scenario_data.name,
             aws |-> aws_costs.value,
             azure |-> azure_costs.value,
             savings_azure |-> Savings(aws_costs.value.total, azure_costs.value.total),
             savings_percentage |->
                 SavingsPercentage(aws_costs.value.total, azure_costs.value.total)])

\* dict[key] = value on a dict held as a sequence of <<key, value>> pairs
DictSet(dict, key, value) ==
    IF \E i \in 1..Len(dict) : dict[i][1] = key
    THEN [i \in 1..Len(dict) |-> IF dict[i][1] = key THEN <<key, value>> ELSE dict[i]]
    ELSE Append(dict, <<key, value>>)

RECURSIVE SumSeq(_)
SumSeq(seq) == IF seq = <<>> THEN 0 ELSE Head(seq) + SumSeq(Tail(seq))

\* the percentage recomputed from the summed provider totals
AverageSavingsOfTotals(rs) ==
    LET aws   == SumSeq([i \in 1..Len(rs) |-> rs[i][2].aws.total])
        azure == SumSeq([i \in 1..Len(rs) |-> rs[i][2].azure.total])
    IN  Percent(aws - azure, aws)

\* generate_report: sum([...]) / len(results)
AverageSavings(rs) ==
    MulDiv(SumSeq([i \in 1..Len(rs) |-> rs[i][2].savings_percentage]), 1, Len(rs))

(***************************************************************************)
(* accurate-cost-calculator.py: calculate_costs, the comparison            *)
(***************************************************************************)
AccCompare(s) ==
    LET aws_costs   == AccCalculateAwsCosts(s)
        azure_costs == AccCalculateAzureCosts(s)
    IN  IF aws_costs.status = "raised" THEN aws_costs
        ELSE IF azure_costs.status = "raised" THEN azure_costs
        ELSE LET savings == aws_costs.value.total - azure_costs.value.total
             IN  Returned([aws |-> aws_costs.value,
                           azure |-> azure_costs.value,
                           savings |-> savings,
                           savings_pct |-> Percent(savings, aws_costs.value.total)])

(***************************************************************************)
(* The scenarios handed to the calculators.  One dict carries the keys of  *)
(* both scripts; the optional fee keys are present or absent.              *)
(***************************************************************************)
MaxRequestSteps == 3

MaxLogSteps == 1

MaxVolumeSteps == 1

MaxMonitorSteps == 1

RequestValues == {k * 500000 : k \in -1..MaxRequestSteps}

UserValues == {100, 101, 1000, 1001}

TierCosts ==
    { [database_cost |-> 0, opensearch_cost |-> 0, apim_tier_cost |-> 0,
       cosmos_ru_per_second |-> 0, search_tier_cost |-> 0],
      [database_cost |-> aws_pricing.documentdb.t3_medium,
       opensearch_cost |-> aws_pricing.opensearch.t3_small,
       apim_tier_cost |-> azure_pricing.apim.developer,
       cosmos_ru_per_second |-> 1000,
       search_tier_cost |-> azure_pricing.cognitive_search.basic],
      [database_cost |-> aws_pricing.documentdb.r5_large,
       opensearch_cost |-> Dollars(145),
       apim_tier_cost |-> azure_pricing.apim.standard,
       cosmos_ru_per_second |-> 5000,
       search_tier_cost |-> azure_pricing.cognitive_search.standard_s1] }

NoFees == [k \in {} |-> 0]

FeeKeys == {"cognito_cost", "notification_cost", "waf_cost", "data_transfer_cost",
            "ad_b2c_cost", "logic_apps_cost", "app_gateway_cost", "key_vault_cost"}

OptionalFees ==
    { NoFees,
      [k \in FeeKeys |-> 0],
      [cognito_cost |-> 27500, notification_cost |-> Dollars(12),
       waf_cost |-> Dollars(15), data_transfer_cost |-> Dollars(89),
       ad_b2c_cost |-> Dollars(15), logic_apps_cost |-> Dollars(28),
       app_gateway_cost |-> Dollars(45), key_vault_cost |-> Dollars(3)] }

Scenarios ==
    { [name |-> "scenario",
       requests_per_month |-> r, monthly_requests |-> r,
       avg_duration_seconds |-> 2, memory_gb |-> 1,
       storage_gb |-> 50 * v, cdn_transfer_gb |-> 100 * v, data_transfer_gb |-> 100 * v,
       log_volume_gb |-> 10 * l,
       metrics_count |-> 50 * m, alarms_count |-> 10 * m,
       users |-> u] @@ t @@ f :
      r \in RequestValues, v \in 0..MaxVolumeSteps, l \in 0..MaxLogSteps,
      m \in 0..MaxMonitorSteps, u \in UserValues, t \in TierCosts, f \in OptionalFees }

\* Every numeric field the calculators read is >= 0.
NonNegative(s) ==
    \A k \in DOMAIN s \ {"name"} : s[k] >= 0

(***************************************************************************)
(* State                                                                   *)
(*   scenario  the scenario a caller passes to a calculator                *)
(*   call      the last calculator call on it: function, value or raise    *)
(*   pc, idx, results, avg_azure_savings                                   *)
(*             generate_report and its compare_all_scenarios loop          *)
(* The module is either run as a script (pc = "start": __main__ runs       *)
(* generate_report on the built-in scenarios) or imported (pc = "caller":  *)
(* a caller applies the calculators to a scenario of its own).             *)
(***************************************************************************)
NoCall == [fn |-> "none"]

Init ==
    /\ \/ pc = "start" /\ scenario = generate_scenarios[1][2]
       \/ pc = "caller" /\ scenario \in Scenarios
    /\ call = NoCall
    /\ idx = 1
    /\ results = <<>>
    /\ avg_azure_savings = 0

Call(fn, result) ==
    /\ pc = "caller"
    /\ call = NoCall
    /\ call' = [fn |-> fn, result |-> result]
    /\ UNCHANGED <<scenario, pc, idx, results, avg_azure_savings>>

CallAws == Call("calculate_aws_costs", calculate_aws_costs(scenario))

CallAzure == Call("calculate_azure_costs", calculate_azure_costs(scenario))

CallAccAws == Call("acc_calculate_aws_costs", AccCalculateAwsCosts(scenario))

CallAccAzure == Call("acc_calculate_azure_costs", AccCalculateAzureCosts(scenario))

CallCompare == Call("compare", CompareScenario(scenario))

CallAccCompare == Call("acc_compare", AccCompare(scenario))

\* compare_all_scenarios: scenarios = self.generate_scenarios(); results = {}
CompareStart ==
    /\ pc = "start"
    /\ pc' = "loop"
    /\ idx' = 1
    /\ results' = <<>>
    /\ UNCHANGED <<scenario, call, avg_azure_savings>>

\* one iteration of: for scenario_name, scenario_data in scenarios.items()
CompareStep ==
    /\ pc = "loop"
    /\ idx <= Len(generate_scenarios)
    /\ LET scenario_name == generate_scenarios[idx][1]
           scenario_data == generate_scenarios[idx][2]
           r == CompareScenario(scenario_data)
       IN  IF r.status = "raised"
           THEN /\ pc' = "raised"
                /\ UNCHANGED <<idx, results>>
           ELSE /\ results' = DictSet(results, scenario_name, r.value)
                /\ idx' = idx + 1
                /\ pc' = pc
    /\ UNCHANGED <<scenario, call, avg_azure_savings>>

\* the loop left one scenario early
CompareReturnEarly ==
    /\ pc = "loop"
    /\ idx >= Len(generate_scenarios)
    /\ pc' = "report"
    /\ UNCHANGED <<scenario, call, idx, results, avg_azure_savings>>

\* return results, back in generate_report
CompareReturn ==
    /\ pc = "loop"
    /\ idx > Len(generate_scenarios)
    /\ pc' = "report"
    /\ UNCHANGED <<scenario, call, idx, results, avg_azure_savings>>

\* generate_report: the average of the savings percentages
Report ==
    /\ pc = "report"
    /\ IF Len(results) = 0
       THEN /\ pc' = "raised"
            /\ UNCHANGED avg_azure_savings
       ELSE /\ avg_azure_savings' = AverageSavings(results)
            /\ pc' = "done"
    /\ UNCHANGED <<scenario, call, idx, results>>

Next ==
    \/ CallAws
    \/ CallAzure
    \/ CallAccAws
    \/ CallAccAzure
    \/ CallCompare
    \/ CallAccCompare
    \/ CompareStart
    \/ CompareStep
    \/ CompareReturn
    \/ Report

Spec == Init /\ [][Next]_vars

\* generate_report runs to its end: nothing suspends it.
FairSpec ==
    Spec /\ WF_vars(CompareStart) /\ WF_vars(CompareStep)
         /\ WF_vars(CompareReturn) /\ WF_vars(Report)

(***************************************************************************)
(* Claims                                                                  *)
(***************************************************************************)
CalledAndReturned(fn) == call.fn = fn /\ call.result.status = "returned"

CalledAndRaised(fn) == call.fn = fn /\ call.result.status = "raised"

\* The five category sub-totals of a CloudCostCalculator breakdown.
AwsCategories(b) ==
    [compute    |-> b.lambda.total + b.api_gateway,
     storage    |-> b.s3_cloudfront.total,
     database   |-> b.database,
     logging    |-> b.cloudwatch.total + b.opensearch,
     additional |-> b.additional.cognito + b.additional.sns_ses
                    + b.additional.waf + b.additional.data_transfer]

AzureCategories(b) ==
    [compute    |-> b.functions.total + b.apim,
     storage    |-> b.static_web_apps.total,
     database   |-> b.cosmos_db,
     logging    |-> b.monitor.total + b.search,
     additional |-> b.additional.ad_b2c + b.additional.logic_apps
                    + b.additional.app_gateway + b.additional.key_vault
                    + b.additional.data_transfer]

SumOfCategories(c) == c.compute + c.storage + c.database + c.logging + c.additional

\* C1: the grand total of every cost calculation equals compute + storage +
\* database + logging + additional of the same result, each category counted
\* once (for the function-based script the additional category is its constant
\* fee, which the result does not carry as a field).
C1_TotalIsSumOfCategories ==
    /\ CalledAndReturned("calculate_aws_costs") =>
         call.result.value.total
           = SumOfCategories(AwsCategories(call.result.value.breakdown))
    /\ CalledAndReturned("calculate_azure_costs") =>
         call.result.value.total
           = SumOfCategories(AzureCategories(call.result.value.breakdown))
    /\ CalledAndReturned("acc_calculate_aws_costs") =>
         call.result.value.total
           = SumOfCategories([call.result.value EXCEPT !.total = 0]
                             @@ [additional |-> Dollars(20)])
    /\ CalledAndReturned("acc_calculate_azure_costs") =>
         call.result.value.total
           = SumOfCategories([call.result.value EXCEPT !.total = 0]
                             @@ [additional |-> Dollars(15)])
    /\ \A i \in 1..Len(results) :
         /\ results[i][2].aws.total
              = SumOfCategories(AwsCategories(results[i][2].aws.breakdown))
         /\ results[i][2].azure.total
              = SumOfCategories(AzureCategories(results[i][2].azure.breakdown))

\* C1 witness: a calculation returned a total in which all five categories
\* are non-zero.
C1_Witness ==
    /\ CalledAndReturned("calculate_aws_costs")
    /\ LET c == AwsCategories(call.result.value.breakdown)
       IN  c.compute > 0 /\ c.storage > 0 /\ c.database > 0
           /\ c.logging > 0 /\ c.additional > 0

\* The tier of a user count: 1 for users <= 100, 2 for 100 < users <= 1000,
\* 3 for users > 1000.
UserTier(users) == IF users <= 100 THEN 1 ELSE IF users <= 1000 THEN 2 ELSE 3

\* C2 as stated: the database cost of every provider cost calculation is
\* decided by the tier of the user count alone; here for
\* CloudCostCalculator.calculate_aws_costs.
C2_DatabaseCostDependsOnUsersOnly ==
    CalledAndReturned("calculate_aws_costs") =>
        \A s2 \in Scenarios :
            UserTier(s2.users) = UserTier(scenario.users)
                => AwsCosts(s2).database = call.result.value.breakdown.database

\* C2 amended: in accurate-cost-calculator.py the database cost is a step
\* function of the user count with breakpoints at 100 and 1000 (AWS 65, 156,
\* 625 dollars; Azure 1000, 5000, 25000 RU/s at 0.008 dollars an hour for 730
\* hours); in CloudCostCalculator it is the scenario's database_cost (AWS)
\* and cosmos_ru_per_second * 0.008 * 730 (Azure), whatever the user count.
C2_DatabaseCostIsStepFunction ==
    /\ CalledAndReturned("acc_calculate_aws_costs") =>
         call.result.value.database
           = <<65000, 156000, 625000>>[UserTier(scenario.users)]
    /\ CalledAndReturned("acc_calculate_azure_costs") =>
         call.result.value.database
           = <<5840000, 29200000, 146000000>>[UserTier(scenario.users)]
    /\ CalledAndReturned("calculate_aws_costs") =>
         call.result.value.breakdown.database = scenario.database_cost
    /\ CalledAndReturned("calculate_azure_costs") =>
         call.result.value.breakdown.cosmos_db
           = scenario.cosmos_ru_per_second * 8 * 730

\* C2 witness: the function-based AWS calculation returned for a user count
\* on a breakpoint.
C2_Witness ==
    /\ CalledAndReturned("acc_calculate_aws_costs")
    /\ scenario.users = 100
    /\ call.result.value.database = 65000

\* Every term of the AWS total is zero: nothing is used, the tier prices are
\* zero and the four optional fees are supplied as 0.
AwsNothingCharged(s) ==
    /\ s.requests_per_month = 0 /\ s.storage_gb = 0 /\ s.cdn_transfer_gb = 0
    /\ s.log_volume_gb = 0 /\ s.metrics_count = 0 /\ s.alarms_count = 0
    /\ s.database_cost = 0 /\ s.opensearch_cost = 0
    /\ \A k \in {"cognito_cost", "notification_cost", "waf_cost", "data_transfer_cost"} :
         k \in DOMAIN s /\ s[k] = 0

\* C3 as stated: for non-negative fields both CloudCostCalculator
\* calculations return, with a strictly positive total.
C3_NonNegativeNeverRaises ==
    (call.fn \in {"calculate_aws_costs", "calculate_azure_costs"}
     /\ NonNegative(scenario)) =>
        call.result.status = "returned" /\ call.result.value.total > 0

\* C3 amended: for non-negative fields calculate_azure_costs and both
\* functions of accurate-cost-calculator.py return with a strictly positive
\* total (each includes a fixed fee); calculate_aws_costs has no fixed fee:
\* it returns with a strictly positive total unless every term is zero (the
\* optional fees supplied as 0 included), and then raises ZeroDivisionError.
C3_RaisesOnlyOnZeroAwsTotal ==
    NonNegative(scenario) =>
        /\ call.fn \in {"calculate_azure_costs", "acc_calculate_aws_costs",
                        "acc_calculate_azure_costs"} =>
             call.result.status = "returned" /\ call.result.value.total > 0
        /\ call.fn = "calculate_aws_costs" =>
             IF AwsNothingCharged(scenario)
             THEN call.result = Raised("ZeroDivisionError")
             ELSE call.result.status = "returned" /\ call.result.value.total > 0

\* C3 witness: calculate_azure_costs returned for the scenario on which
\* calculate_aws_costs divides by zero.
C3_Witness ==
    /\ CalledAndReturned("calculate_azure_costs")
    /\ NonNegative(scenario)
    /\ AwsNothingCharged(scenario)
    /\ call.result.value.total = Dollars(9)

InPercentRange(p) == 0 <= p /\ p <= 100 * PctScale

\* C4: for non-negative fields, the logging percentage of a returned result
\* is between 0 and 100.
C4_LoggingPercentageInRange ==
    /\ NonNegative(scenario) =>
         /\ call.fn \in {"calculate_aws_costs", "calculate_azure_costs"}
            /\ call.result.status = "returned"
              => InPercentRange(call.result.value.logging_percentage)
         /\ call.fn \in {"acc_calculate_aws_costs", "acc_calculate_azure_costs"}
            /\ call.result.status = "returned"
              => InPercentRange(call.result.value.logging_pct)
    /\ \A i \in 1..Len(results) :
         /\ InPercentRange(results[i][2].aws.logging_percentage)
         /\ InPercentRange(results[i][2].azure.logging_percentage)

\* C4 witness: a result whose costs are all logging costs, 100 percent.
C4_Witness ==
    /\ CalledAndReturned("calculate_aws_costs")
    /\ NonNegative(scenario)
    /\ call.result.value.logging_percentage = 100 * PctScale

\* The logging cost of a CloudCostCalculator breakdown: the numerator of its
\* logging percentage.
AwsResultLogging(b) == b.cloudwatch.total + b.opensearch

AzureResultLogging(b) == b.monitor.total + b.search

\* C5 as stated: the logging cost is log volume x ingestion price + log
\* volume x retention price + the search tier price and nothing else; here
\* for CloudCostCalculator.calculate_aws_costs.
C5_LoggingCostHasThreeTerms ==
    CalledAndReturned("calculate_aws_costs") =>
        AwsResultLogging(call.result.value.breakdown)
          = scenario.log_volume_gb * 500 + scenario.log_volume_gb * 30
            + scenario.opensearch_cost

\* C5 amended: the logging cost is log volume x ingestion price + log volume
\* x retention price + the search tier price, and for
\* CloudCostCalculator.calculate_aws_costs additionally metrics_count x 0.30
\* + alarms_count x 0.10.
C5_LoggingCostTerms ==
    /\ CalledAndReturned("calculate_aws_costs") =>
         AwsResultLogging(call.result.value.breakdown)
           = scenario.log_volume_gb * 500 + scenario.log_volume_gb * 30
             + scenario.opensearch_cost
             + scenario.metrics_count * 300 + scenario.alarms_count * 100
    /\ CalledAndReturned("calculate_azure_costs") =>
         AzureResultLogging(call.result.value.breakdown)
           = scenario.log_volume_gb * 270 + scenario.log_volume_gb * 120
             + scenario.search_tier_cost
    /\ CalledAndReturned("acc_calculate_aws_costs") =>
         call.result.value.logging
           = scenario.log_volume_gb * 500 + scenario.log_volume_gb * 30
             + <<28000, 145000, 567000>>[UserTier(scenario.users)]
    /\ CalledAndReturned("acc_calculate_azure_costs") =>
         call.result.value.logging
           = scenario.log_volume_gb * 270 + scenario.log_volume_gb * 120
             + <<25000, 89000, 445000>>[UserTier(scenario.users)]

\* C5 witness: calculate_azure_costs returned for a scenario with logs,
\* metrics and alarms.
C5_Witness ==
    /\ CalledAndReturned("calculate_azure_costs")
    /\ scenario.log_volume_gb > 0
    /\ scenario.metrics_count > 0 /\ scenario.alarms_count > 0
    /\ scenario.search_tier_cost > 0

\* The request charge for a request count: 0 up to the free tier, then
\* 0.0000002 dollars for each request above it.
RequestCharge(requests) ==
    IF requests <= 1000000 THEN 0 ELSE ((requests - 1000000) * 2) \div 10000

\* C6: the per-request component of the serverless compute cost is 0 for a
\* request count of at most 1,000,000, never negative, and (requests -
\* 1,000,000) x 0.0000002 above the threshold, for both providers.
C6_FreeTierRequestCharge ==
    /\ CalledAndReturned("calculate_aws_costs") =>
         /\ call.result.value.breakdown.lambda.requests
              = RequestCharge(scenario.requests_per_month)
         /\ call.result.value.breakdown.lambda.requests >= 0
    /\ CalledAndReturned("calculate_azure_costs") =>
         /\ call.result.value.breakdown.functions.requests
              = RequestCharge(scenario.requests_per_month)
         /\ call.result.value.breakdown.functions.requests >= 0
    /\ call.fn = "acc_calculate_aws_costs" =>
         /\ AccAwsCompute(scenario).lambda_cost
              = RequestCharge(scenario.monthly_requests)
         /\ CalledAndReturned("acc_calculate_aws_costs") =>
              call.result.value.compute
                = RequestCharge(scenario.monthly_requests)
                  + (scenario.monthly_requests * 35) \div 10000
    /\ call.fn = "acc_calculate_azure_costs" =>
         AccAzureCompute(scenario).functions_cost
           = RequestCharge(scenario.monthly_requests)
    /\ \A i \in 1..Len(results) :
         /\ results[i][2].aws.breakdown.lambda.requests
              = RequestCharge(generate_scenarios[i][2].requests_per_month)
         /\ results[i][2].azure.breakdown.functions.requests
              = RequestCharge(generate_scenarios[i][2].requests_per_month)

\* C6 witness: a calculation returned for a request count exactly on the
\* free-tier threshold, with no request charge.
C6_Witness ==
    /\ CalledAndReturned("calculate_aws_costs")
    /\ scenario.requests_per_month = FreeRequests
    /\ call.result.value.breakdown.lambda.requests = 0

\* C6 witness above the threshold is part of the same check: the charge is
\* positive there.
C6_AboveThresholdReached ==
    /\ CalledAndReturned("calculate_azure_costs")
    /\ scenario.requests_per_month > FreeRequests
    /\ call.result.value.breakdown.functions.requests > 0

\* The savings and the savings percentage have the sign of aws - azure.
SignsAgree(aws_total, azure_total, savings, percentage) ==
    /\ savings = aws_total - azure_total
    /\ aws_total > azure_total => savings > 0 /\ percentage > 0
    /\ aws_total < azure_total => savings < 0 /\ percentage < 0
    /\ aws_total = azure_total => savings = 0 /\ percentage = 0

\* C7: in a comparison the savings are the AWS total minus the Azure total,
\* and the savings amount and the savings percentage are both positive when
\* the AWS total is the larger, both negative when it is the smaller, both 0
\* when the totals are equal (scenarios with non-negative fields).
C7_SavingsSignAgrees ==
    /\ CalledAndReturned("compare") /\ NonNegative(scenario) =>
         LET r == call.result.value
         IN  SignsAgree(r.aws.total, r.azure.total, r.savings_azure, r.savings_percentage)
    /\ CalledAndReturned("acc_compare") /\ NonNegative(scenario) =>
         LET r == call.result.value
         IN  SignsAgree(r.aws.total, r.azure.total, r.savings, r.savings_pct)
    /\ \A i \in 1..Len(results) :
         LET r == results[i][2]
         IN  SignsAgree(r.aws.total, r.azure.total, r.savings_azure, r.savings_percentage)

\* C7 witness: a comparison in which AWS costs more than Azure, with
\* positive savings.
C7_Witness ==
    /\ CalledAndReturned("compare")
    /\ NonNegative(scenario)
    /\ call.result.value.aws.total > call.result.value.azure.total
    /\ call.result.value.savings_percentage > 0

\* C7: the other sign is reached too, in the report's own results.
C7_NegativeReached ==
    /\ Len(results) > 0
    /\ results[1][2].aws.total < results[1][2].azure.total
    /\ results[1][2].savings_percentage < 0

\* The results of compare_all_scenarios are the comparisons of the first n
\* scenarios, in the order of the scenarios.
ResultsArePrefix(n) ==
    /\ Len(results) = n
    /\ \A i \in 1..n :
         /\ results[i][1] = generate_scenarios[i][1]
         /\ results[i][2].scenario = generate_scenarios[i][2].name
         /\ results[i][2].aws = calculate_aws_costs(generate_scenarios[i][2]).value
         /\ results[i][2].azure = calculate_azure_costs(generate_scenarios[i][2]).value

\* C8: compare_all_scenarios produces exactly one comparison per scenario,
\* each built from the AWS and Azure breakdowns of that scenario, in the order
\* of the scenarios, and the loop finishes after the last scenario.
C8_OneResultPerScenarioInOrder ==
    /\ [](pc = "loop" => idx - 1 <= Len(generate_scenarios) /\ ResultsArePrefix(idx - 1))
    /\ [](pc \in {"report", "done"} => ResultsArePrefix(Len(generate_scenarios)))
    /\ (pc = "start") ~> (pc = "report")

\* C8 witness: the loop has returned the three comparisons, the last of them
\* the last scenario's.
C8_Witness ==
    /\ pc = "report"
    /\ Len(results) = 3
    /\ results[3][1] = "high_usage"
    /\ results[3][2].scenario = "High Usage (10K DAU)"

\* C9: the average savings percentage of generate_report is the arithmetic
\* mean of the scenarios' savings percentages (their sum divided by their
\* number, to the resolution of a percentage), not the percentage recomputed
\* from the summed provider totals.
C9_AverageIsMeanOfPercentages ==
    pc = "done" =>
        LET n     == Len(results)
            total == SumSeq([i \in 1..n |-> results[i][2].savings_percentage])
            aws   == SumSeq([i \in 1..n |-> results[i][2].aws.total])
            azure == SumSeq([i \in 1..n |-> results[i][2].azure.total])
        IN  /\ n = Len(generate_scenarios)
            /\ Abs(total - n * avg_azure_savings) < n
            /\ Abs(n * avg_azure_savings) <= Abs(total)
            /\ Abs(avg_azure_savings - Percent(aws - azure, aws)) > PctScale

\* C9 witness: the report has computed the average of three percentages,
\* about -3490 percent.
C9_Witness ==
    /\ pc = "done"
    /\ Len(results) = 3
    /\ avg_azure_savings < -3490 * PctScale
    /\ avg_azure_savings > -3491 * PctScale

\* The numeric fields the CloudCostCalculator calculations require.
RequiredFields ==
    {"requests_per_month", "avg_duration_seconds", "memory_gb", "storage_gb",
     "cdn_transfer_gb", "log_volume_gb", "metrics_count", "alarms_count",
     "database_cost", "opensearch_cost", "apim_tier_cost",
     "cosmos_ru_per_second", "search_tier_cost"}

\* C10: when a required numeric field is negative, or the grand total is
\* zero, the cost calculation raises InvalidScenario.
C10_InvalidScenarioRaised ==
    /\ call.fn = "calculate_aws_costs"
       /\ ((\E k \in RequiredFields : scenario[k] < 0)
           \/ AwsTotalCost(AwsCosts(scenario)) = 0)
         => call.result = Raised("InvalidScenario")
    /\ call.fn = "calculate_azure_costs"
       /\ ((\E k \in RequiredFields : scenario[k] < 0)
           \/ AzureTotalCost(AzureCosts(scenario)) = 0)
         => call.result = Raised("InvalidScenario")

\* C10: what the code does instead for a negative field: it returns a
\* breakdown with a negative figure.
C10_NegativeFigureReturned ==
    /\ CalledAndReturned("calculate_aws_costs")
    /\ scenario.requests_per_month < 0
    /\ call.result.value.breakdown.api_gateway < 0

\* Equal within 0.01 dollar.
WithinCent(x, y) == Abs(x - y) <= Milli \div 100

\* C11: for the built-in low-usage scenario (50000 requests of 2 s at 0.5 GB,
\* 50 GB stored, 100 GB transferred, 10 GB of logs) calculate_aws_costs yields
\* no Lambda request charge and no Lambda execution charge (50000 GB-seconds
\* is under the free 400000), so compute is the API gateway fee 50000 x
\* 0.0000035 = 0.175 dollar; database is 65 and OpenSearch 28 dollars; each
\* within 0.01 dollar.
C11_LowUsageAwsFigures ==
    \A i \in 1..Len(results) :
        results[i][1] = "low_usage" =>
            LET s == generate_scenarios[i][2]
                b == results[i][2].aws.breakdown
            IN  /\ s.requests_per_month = 50000 /\ s.avg_duration_seconds = 2
                /\ s.memory_gb = MemDen \div 2
                /\ s.storage_gb = 50 /\ s.cdn_transfer_gb = 100
                /\ s.log_volume_gb = 10
                /\ GbSeconds(s.requests_per_month, s.avg_duration_seconds, s.memory_gb)
                     = 50000
                /\ b.lambda.requests = 0
                /\ b.lambda.execution = 0
                /\ WithinCent(b.lambda.total + b.api_gateway, 175)
                /\ WithinCent(b.database, 65000)
                /\ WithinCent(b.opensearch, 28000)

\* C11 witness: the loop has stored the comparison of the low-usage scenario,
\* whose AWS compute cost is the gateway fee alone.
C11_Witness ==
    /\ Len(results) >= 1
    /\ results[1][1] = "low_usage"
    /\ results[1][2].aws.breakdown.lambda.total = 0
    /\ results[1][2].aws.breakdown.api_gateway = 175

\* C12: for each of the three built-in scenarios the AWS and the Azure logging
\* percentage both lie between 20 and 35, as the line printed by
\* generate_report says.
C12_LoggingShareBetween20And35 ==
    \A i \in 1..Len(results) :
        /\ 20 * PctScale <= results[i][2].aws.logging_percentage
        /\ results[i][2].aws.logging_percentage <= 35 * PctScale
        /\ 20 * PctScale <= results[i][2].azure.logging_percentage
        /\ results[i][2].azure.logging_percentage <= 35 * PctScale

\* C12: what the code computes instead: only the AWS share of the low-usage
\* scenario is in the range; the AWS shares of the other two are above 41 and
\* below 19 percent, and every Azure share is below 1 percent.
C12_ComputedLoggingShares ==
    /\ pc = "done"
    /\ Len(results) = 3
    /\ results[1][2].aws.logging_percentage > 32 * PctScale
    /\ results[1][2].aws.logging_percentage < 33 * PctScale
    /\ results[2][2].aws.logging_percentage > 41 * PctScale
    /\ results[3][2].aws.logging_percentage < 19 * PctScale
    /\ \A i \in 1..3 : results[i][2].azure.logging_percentage < PctScale

====
